---- MODULE Spec2Model ----
(***************************************************************************)
(* Model of the Keycloak organization entity provider                      *)
(* (KeycloakOrgEntityProvider), of the backend module that registers it    *)
(* and of its transformer extension point.                                 *)
(*                                                                         *)
(* The directory (Keycloak realm), the catalog and the task runner are      *)
(* the provider's environment.  The provider's refresh task is modelled    *)
(* step by step (one step per awaited remote call of read()); every event  *)
(* handler is one action.                                                  *)
(***************************************************************************)
EXTENDS Integers, Sequences, FiniteSets, TLC

VARIABLES
    kc,          \* the directory: the realm's users, groups and memberships
    kcChanges,   \* number of changes made to the directory so far
    catalog,     \* the provider-owned entities of the catalog
    connection,  \* this.connection is set
    subscribed,  \* the onEvent callback is registered with the events service
    runnerTasks, \* ids of the tasks handed to the task runner, in order
    counter,     \* backend_keycloak.fetch.task.failure.count
    taskInstanceIds, \* the taskInstanceIds produced by uuid.v4(), in order
    run,         \* the read() invocation in progress, or the last one
    last,        \* what the latest step did (see Obs0)
    delivered,   \* number of events delivered to onEvent so far
    ext,         \* catalogModuleKeycloakEntityProvider.register's closure
    cfg,         \* the last call of fromConfig and its result
    fetch,       \* the fetches of one read() behind its concurrency limit
    ldap,        \* the last call of the LDAP myUserTransformer and its result
    logo         \* the last rendering of SidebarLogo

vars == <<kc, kcChanges, catalog, connection, subscribed, runnerTasks, counter,
          taskInstanceIds, run, last, delivered, ext, cfg, fetch, ldap, logo>>

engineVars == <<kc, kcChanges, catalog, connection, subscribed, runnerTasks,
                counter, taskInstanceIds, run, last, delivered>>

----------------------------------------------------------------------------
(* Bounds and universes *)

\* Changes an administrator makes to the realm in one behaviour.
MaxDirChanges == 1
\* Invocations of the refresh task by the runner in one behaviour.
MaxRuns == 2
\* Events delivered to onEvent in one behaviour.
MaxEvents == 2
\* Length of a catalog user's spec.memberOf that membership events extend.
MaxMemberOf == 2
\* Calls of the extension point's setters in one behaviour.
MaxSetCalls == 3
\* Provider configurations under catalog.providers.keycloakOrg.
MaxConfigs == 2

UserIds == {"u1"}
GroupIds == {"g1", "g2"}
None == "none"

\* The realm's group hierarchy: g2 is a subgroup of g1.
KcParent(g) == IF g = "g2" THEN "g1" ELSE None

ProviderId == "default"
BaseUrl == "https://kc"
Realm == "r"

----------------------------------------------------------------------------
(* Sequences *)

Range(s) == {s[i] : i \in 1..Len(s)}

\* Position of an identifier in the order in which the remote APIs list it.
Ord(x) == IF x \in {"u1", "g1"} THEN 1 ELSE 2

RECURSIVE SetToSeq(_)
\* The elements of a set of identifiers as a list, in listing order.
SetToSeq(S) ==
    IF S = {} THEN <<>>
    ELSE LET x == CHOOSE y \in S : \A z \in S : Ord(y) <= Ord(z)
         IN  <<x>> \o SetToSeq(S \ {x})

\* Array.prototype.indexOf: the first index holding x, 0 when there is none
\* (JavaScript's -1).
IndexOf(s, x) ==
    IF \E i \in 1..Len(s) : s[i] = x
    THEN CHOOSE i \in 1..Len(s) : s[i] = x /\ \A j \in 1..(i - 1) : s[j] # x
    ELSE 0

\* Array.prototype.splice(index): everything from the index on is removed.
SpliceToEnd(s, i) == SubSeq(s, 1, i - 1)

\* Array.prototype.splice(index, 1)
Splice1(s, i) == SubSeq(s, 1, i - 1) \o SubSeq(s, i + 1, Len(s))

----------------------------------------------------------------------------
(* The directory: a Keycloak realm behind its admin API *)

UserName(u) == IF u = "u1" THEN "alice" ELSE "bob"
GroupName(g) == IF g = "g1" THEN "dev" ELSE "qa"

KcGroupsOf(d, u) == {g \in d.groups : <<u, g>> \in d.members}
KcMembersOf(d, g) == {u \in d.users : <<u, g>> \in d.members}
KcSubGroups(d, g) == {h \in d.groups : KcParent(h) = g}


InitDirectories ==
    {[users |-> UserIds, groups |-> GroupIds,
      members |-> {<<"u1", "g1">>},
      urev |-> [u \in UserIds |-> 0], grev |-> [g \in GroupIds |-> 0]],
     [users |-> {}, groups |-> {"g1"}, members |-> {},
      urev |-> [u \in UserIds |-> 0], grev |-> [g \in GroupIds |-> 0]]}

\* The realms one administrative change away from d: a user or group created,
\* updated or deleted (a group with its subgroups), a membership added or
\* removed.
KcSuccessors(d) ==
    {[d EXCEPT !.users = @ \cup {u}] : u \in UserIds \ d.users}
    \cup {[d EXCEPT !.users = @ \ {u}, !.members = {m \in @ : m[1] # u},
                    !.urev[u] = 0] : u \in d.users}
    \cup {[d EXCEPT !.urev[u] = 1 - @] : u \in d.users}
    \cup {[d EXCEPT !.groups = @ \cup {g}] :
            g \in {h \in GroupIds \ d.groups : KcParent(h) \in d.groups \cup {None}}}
    \cup {[d EXCEPT !.groups = {h \in @ : h # g /\ KcParent(h) # g},
                    !.members = {m \in @ : m[2] # g /\ KcParent(m[2]) # g},
                    !.grev = [h \in GroupIds |->
                                IF h = g \/ KcParent(h) = g THEN 0 ELSE @[h]]] :
            g \in d.groups}
    \cup {[d EXCEPT !.grev[g] = 1 - @] : g \in d.groups}
    \cup {[d EXCEPT !.members = @ \cup {m}] : m \in (d.users \X d.groups) \ d.members}
    \cup {[d EXCEPT !.members = @ \ {m}] : m \in d.members}

----------------------------------------------------------------------------
(* The entity mapper *)

\* A catalog entity, reduced to the fields the provider reads or writes:
\* metadata.name, the Keycloak id annotation, the profile (rev), spec.memberOf
\* of a User, spec.parent / children / members of a Group, and the location
\* annotations.
Entity(kind, name, id, rev, memberOf, parent, children, members) ==
    [kind |-> kind, name |-> name, id |-> id, rev |-> rev, memberOf |-> memberOf,
     parent |-> parent, children |-> children, members |-> members,
     location |-> None]

\* parseUser with the default (no-op) user transformer: spec.memberOf is the
\* entry of the group index under the user's username, [] when it has none.
ParseUser(d, u, groupIndex) ==
    Entity("User", UserName(u), u, d.urev[u],
           IF UserName(u) \in DOMAIN groupIndex THEN groupIndex[UserName(u)] ELSE <<>>,
           None, {}, {})

\* parseGroup with the default (no-op) group transformer, of a group
\* representation g with the given parent name, subgroups and members.
ParseGroup(d, g, parent, subGroups, members) ==
    Entity("Group", GroupName(g), g, d.grev[g], <<>>, parent,
           {GroupName(h) : h \in subGroups}, {UserName(u) : u \in members})

\* withLocations: the location annotations merged under the entity's own, so
\* that an entity that has them already keeps them.
withLocations(entity) ==
    IF entity.location # None THEN entity
    ELSE [entity EXCEPT !.location =
            "url:" \o BaseUrl \o "/admin/realms/" \o Realm \o "/"
            \o (IF entity.kind = "Group" THEN "groups" ELSE "users") \o "/"
            \o entity.id]

LocationKey == "keycloak-org-provider:" \o ProviderId

\* One element of a mutation's entity list.
Deferred(entity) == [locationKey |-> LocationKey, entity |-> withLocations(entity)]

RECURSIVE DeferredAll(_)
DeferredAll(entities) ==
    IF entities = <<>> THEN <<>>
    ELSE <<Deferred(Head(entities))>> \o DeferredAll(Tail(entities))

\* addEntitiesOperation / removeEntitiesOperation
addEntitiesOperation(entities) == [added |-> DeferredAll(entities), removed |-> <<>>]
removeEntitiesOperation(entities) == [added |-> <<>>, removed |-> DeferredAll(entities)]

----------------------------------------------------------------------------
(* The catalog behind the provider connection and the catalog API *)

EntityRef(e) == <<e.kind, e.name>>

FullMutation(entities) == [type |-> "full", added |-> entities, removed |-> <<>>]
DeltaMutation(added, removed) == [type |-> "delta", added |-> added, removed |-> removed]

\* connection.applyMutation: a full mutation replaces everything the provider
\* owns; a delta removes the removed entity refs and then upserts the added.
ApplyMutation(cat, m) ==
    LET addedSet == {m.added[i].entity : i \in 1..Len(m.added)}
        gone == {EntityRef(m.removed[i].entity) : i \in 1..Len(m.removed)}
                \cup {EntityRef(e) : e \in addedSet}
    IN  IF m.type = "full" THEN addedSet
        ELSE {e \in cat : EntityRef(e) \notin gone} \cup addedSet

\* An optional value is a list of at most one element: <<>> is undefined.
\* catalogApi.getEntities filtered by kind and Keycloak id annotation, cut to
\* its first item.
GetEntityById(cat, kind, id) ==
    IF \E e \in cat : e.kind = kind /\ e.id = id
    THEN <<CHOOSE e \in cat : e.kind = kind /\ e.id = id>>
    ELSE <<>>

\* catalogApi.getEntityByRef
GetEntityByRef(cat, ref) ==
    IF \E e \in cat : EntityRef(e) = ref
    THEN <<CHOOSE e \in cat : EntityRef(e) = ref>>
    ELSE <<>>

\* The relations the catalog derives for an entity: every relation is stored
\* in both directions, whichever side's spec states it.
MemberOfRefs(cat, user) ==
    {<<"Group", n>> : n \in Range(user.memberOf)}
    \cup {EntityRef(g) : g \in {e \in cat : e.kind = "Group" /\ user.name \in e.members}}

HasMemberRefs(cat, group) ==
    {<<"User", n>> : n \in group.members}
    \cup {EntityRef(u) : u \in {e \in cat : e.kind = "User"
                                            /\ group.name \in Range(e.memberOf)}}

ChildOfRefs(cat, group) ==
    (IF group.parent = None THEN {} ELSE {<<"Group", group.parent>>})
    \cup {EntityRef(p) : p \in {e \in cat : e.kind = "Group" /\ group.name \in e.children}}

ParentOfRefs(cat, group) ==
    {<<"Group", n>> : n \in group.children}
    \cup {EntityRef(c) : c \in {e \in cat : e.kind = "Group" /\ e.parent = group.name}}

----------------------------------------------------------------------------
(* Observation of the latest step *)

NoPayload == [type |-> None, resourcePath |-> <<>>, representation |-> None]

\* last describes the step just taken: the operation called, what it was
\* given, how it ended, the directory requests it sent and the mutations it
\* applied, with the values it started from.
Obs0 ==
    [op |-> None, payload |-> NoPayload, families |-> <<>>, outcome |-> None,
     err |-> None, muts |-> <<>>, reqs |-> <<>>, users |-> <<>>, groups |-> <<>>,
     parsed |-> None]

\* An administrator changes the realm.  Whether the provider hears of the
\* change is up to the event bus: events are delivered separately.
KcChange ==
    /\ kcChanges < MaxDirChanges
    /\ kcChanges' = kcChanges + 1
    /\ kc' \in KcSuccessors(kc)
    /\ last' = [Obs0 EXCEPT !.op = "kc"]
    /\ UNCHANGED <<catalog, connection, subscribed, runnerTasks, counter,
                   taskInstanceIds, run, delivered, ext, cfg, fetch, ldap, logo>>

----------------------------------------------------------------------------
(* connect and the scheduled refresh task *)

\* getProviderName
getProviderName == "KeycloakOrgEntityProvider:" \o ProviderId

\* The id of the task scheduleFn hands to the runner.
RefreshTaskId == getProviderName \o ":refresh"

\* What scheduleFn hands to the runner: one taskRunner.run({id, fn}).
scheduleFn(tasks) == Append(tasks, RefreshTaskId)

\* connect: stores the connection, subscribes onEvent to the 'keycloak' topic
\* and calls scheduleFn.
Connect ==
    /\ ~connection
    /\ connection' = TRUE
    /\ subscribed' = TRUE
    /\ runnerTasks' = scheduleFn(runnerTasks)
    /\ last' = [Obs0 EXCEPT !.op = "connect", !.outcome = "returned"]
    /\ UNCHANGED <<kc, kcChanges, catalog, counter, taskInstanceIds, run, delivered, ext, cfg, fetch, ldap, logo>>

RunEnded(r) == r.pc \in {"idle", "returned", "threw"}

\* One invocation of read(): where it stands, who called it, its
\* taskInstanceId, what readKeycloakRealm returned to it, how it ended, whether
\* its applyMutation completed, and the task function's result.
IdleRun ==
    [pc |-> "idle", viaTask |-> FALSE, tid |-> 0, users |-> <<>>, groups |-> <<>>,
     err |-> None, fn |-> None, applied |-> FALSE]

\* uuid.v4(), given the ids produced so far: an id never produced before.
uuidV4(ids) == Len(ids) + 1

\* A task function that would reuse one taskInstanceId for every invocation.
StaleTaskInstanceId(ids) == 1

\* The taskInstanceId of an invocation of the task function.
TaskInstanceId(ids) == uuidV4(ids)

\* A catch block that would count a failure twice.
TaskCatchTwice(c) == c + 2

\* The refresh task's catch block: counter.add(1, ...).
TaskCatch(c) == c + 1

\* What the task function returns to the runner when read() threw: the catch
\* block logs and falls through, so the promise resolves.
TaskFnOutcome(readThrew) == "resolved"

\* read() ends with error e in the run r.
Thrown(r, e) ==
    [r EXCEPT !.pc = "threw", !.err = e, !.users = <<>>, !.groups = <<>>,
              !.fn = IF r.viaTask THEN TaskFnOutcome(TRUE) ELSE None]

\* read() returns in the run r.
Returned(r) ==
    [r EXCEPT !.pc = "returned", !.users = <<>>, !.groups = <<>>,
              !.fn = IF r.viaTask THEN TaskFnOutcome(FALSE) ELSE None]

\* The failure counter after a step that left the run as r: the task's catch
\* block runs when read() threw inside the task.
CounterAfter(r, c) == IF r.pc = "threw" /\ r.viaTask THEN TaskCatch(c) ELSE c

\* A read() without the initialization check.
ReadEnterUnchecked(r, conn) == [r EXCEPT !.pc = "authenticating"]

\* read() up to its first remote call: the initialization check.
ReadEnter(r, conn) ==
    IF conn THEN [r EXCEPT !.pc = "authenticating"] ELSE Thrown(r, "NotFoundError")

ReadObs(op, r, reqs) ==
    [Obs0 EXCEPT !.op = op, !.reqs = reqs,
                 !.outcome = IF r.pc = "threw" THEN "threw"
                             ELSE IF r.pc = "returned" THEN "returned" ELSE "pending",
                 !.err = r.err]

\* The runner invokes the task function: a new taskInstanceId, then read().
TaskInvoke ==
    /\ Len(runnerTasks) > 0
    /\ RunEnded(run)
    /\ Len(taskInstanceIds) < MaxRuns
    /\ LET tid == TaskInstanceId(taskInstanceIds)
           r == ReadEnter([IdleRun EXCEPT !.viaTask = TRUE, !.tid = tid,
                                          !.fn = "pending"], connection)
       IN  /\ taskInstanceIds' = Append(taskInstanceIds, tid)
           /\ run' = r
           /\ counter' = CounterAfter(r, counter)
           /\ last' = ReadObs("task", r, <<>>)
    /\ UNCHANGED <<kc, kcChanges, catalog, connection, subscribed, runnerTasks,
                   delivered, ext, cfg, fetch, ldap, logo>>

\* read() called by anyone but the task (it is a public method).
ReadDirect ==
    /\ RunEnded(run)
    /\ LET r == ReadEnter(IdleRun, connection)
       IN  /\ run' = r
           /\ counter' = CounterAfter(r, counter)
           /\ last' = ReadObs("read", r, <<>>)
    /\ UNCHANGED <<kc, kcChanges, catalog, connection, subscribed, runnerTasks,
                   taskInstanceIds, delivered, ext, cfg, fetch, ldap, logo>>

\* authenticate(kcAdminClient, provider, logger)
ReadAuthenticate ==
    /\ run.pc = "authenticating"
    /\ \E r \in {[run EXCEPT !.pc = "reading"], Thrown(run, "AuthenticationError")} :
         /\ run' = r
         /\ counter' = CounterAfter(r, counter)
         /\ last' = ReadObs("read.authenticate", r, <<"authenticate">>)
    /\ UNCHANGED <<kc, kcChanges, catalog, connection, subscribed, runnerTasks,
                   taskInstanceIds, delivered, ext, cfg, fetch, ldap, logo>>

\* The group index readKeycloakRealm builds: username -> names of the fetched
\* groups the user is a member of.
GroupIndex(d, groups) ==
    [n \in {UserName(u) : u \in d.users} |->
        LET u == CHOOSE v \in d.users : UserName(v) = n
        IN  SetToSeq({g \in groups : <<u, g>> \in d.members})]

RECURSIVE NamesOf(_)
NamesOf(groupIds) ==
    IF groupIds = <<>> THEN <<>>
    ELSE <<GroupName(Head(groupIds))>> \o NamesOf(Tail(groupIds))

GroupNameIndex(d, groups) ==
    [n \in DOMAIN GroupIndex(d, groups) |-> NamesOf(GroupIndex(d, groups)[n])]

\* The name of a group's parent as createGroupEntities and readKeycloakRealm
\* resolve it (groups.findOne of parentId), None for a top-level group.
ParentName(d, g) ==
    IF KcParent(g) # None /\ KcParent(g) \in d.groups
    THEN GroupName(KcParent(g)) ELSE None

\* A fully populated group entity: members, subgroups and parent fetched.
GroupEntityOf(d, g) ==
    ParseGroup(d, g, ParentName(d, g), KcSubGroups(d, g), KcMembersOf(d, g))

RECURSIVE UserEntitiesOf(_, _, _)
UserEntitiesOf(d, users, index) ==
    IF users = <<>> THEN <<>>
    ELSE <<ParseUser(d, Head(users), index)>> \o UserEntitiesOf(d, Tail(users), index)

RECURSIVE GroupEntitiesOf(_, _)
GroupEntitiesOf(d, groups) ==
    IF groups = <<>> THEN <<>>
    ELSE <<GroupEntityOf(d, Head(groups))>> \o GroupEntitiesOf(d, Tail(groups))

\* readKeycloakRealm when the batches holding the users us and the groups gs
\* were fetched (a failed batch is counted and skipped).
readKeycloakRealm(d, us, gs) ==
    [users |-> UserEntitiesOf(d, SetToSeq(us), GroupNameIndex(d, gs)),
     groups |-> GroupEntitiesOf(d, SetToSeq(gs))]

\* The realm fits one page of users and one page of groups: each kind is
\* fetched whole or its batch is skipped.
ReadRealm ==
    /\ run.pc = "reading"
    /\ \E r \in {[run EXCEPT !.pc = "committing",
                             !.users = readKeycloakRealm(kc, us, gs).users,
                             !.groups = readKeycloakRealm(kc, us, gs).groups] :
                    us \in {kc.users, {}}, gs \in {kc.groups, {}}}
                \cup {Thrown(run, "Error")} :
         /\ run' = r
         /\ counter' = CounterAfter(r, counter)
         /\ last' = [ReadObs("read.realm", r, <<"readKeycloakRealm">>)
                        EXCEPT !.users = r.users, !.groups = r.groups]
    /\ UNCHANGED <<kc, kcChanges, catalog, connection, subscribed, runnerTasks,
                   taskInstanceIds, delivered, ext, cfg, fetch, ldap, logo>>

\* A read() that would commit the users alone.
ReadMutationUsersOnly(users, groups) == FullMutation(DeferredAll(users))

\* The mutation read() builds from what readKeycloakRealm returned.
ReadMutation(users, groups) == FullMutation(DeferredAll(users \o groups))

\* A markCommitComplete that would throw after the commit.
markCommitCompleteThrows == "threw"

\* markCommitComplete: logs the commit's duration.
markCommitComplete == "ok"

\* connection.applyMutation({type: 'full', ...}), then markCommitComplete().
ReadCommit ==
    /\ run.pc = "committing"
    /\ \/ LET m == ReadMutation(run.users, run.groups)
              r == IF markCommitComplete = "ok"
                   THEN Returned([run EXCEPT !.applied = TRUE])
                   ELSE Thrown([run EXCEPT !.applied = TRUE], "Error")
          IN  /\ run' = r
              /\ catalog' = ApplyMutation(catalog, m)
              /\ counter' = CounterAfter(r, counter)
              /\ last' = [ReadObs("read.commit", r, <<>>)
                             EXCEPT !.muts = <<m>>, !.users = run.users,
                                    !.groups = run.groups]
       \/ LET r == Thrown(run, "Error")
          IN  /\ run' = r
              /\ catalog' = catalog
              /\ counter' = CounterAfter(r, counter)
              /\ last' = [ReadObs("read.commit", r, <<>>)
                             EXCEPT !.users = run.users, !.groups = run.groups]
    /\ UNCHANGED <<kc, kcChanges, connection, subscribed, runnerTasks,
                   taskInstanceIds, delivered, ext, cfg, fetch, ldap, logo>>

----------------------------------------------------------------------------
(* Event handlers *)

TOPIC_USER_CREATE == "admin.USER-CREATE"
TOPIC_USER_DELETE == "admin.USER-DELETE"
TOPIC_USER_UPDATE == "admin.USER-UPDATE"
TOPIC_USER_ADD_GROUP == "admin.GROUP_MEMBERSHIP-CREATE"
TOPIC_USER_REMOVE_GROUP == "admin.GROUP_MEMBERSHIP-DELETE"
TOPIC_GROUP_CREATE == "admin.GROUP-CREATE"
TOPIC_GROUP_DELETE == "admin.GROUP-DELETE"
TOPIC_GROUP_UPDATE == "admin.GROUP-UPDATE"

\* An event type of the realm that the provider has no handler for.
TOPIC_OTHER == "admin.CLIENT-CREATE"

UserTopics == {TOPIC_USER_CREATE, TOPIC_USER_DELETE, TOPIC_USER_UPDATE}
MembershipTopics == {TOPIC_USER_ADD_GROUP, TOPIC_USER_REMOVE_GROUP}
GroupTopics == {TOPIC_GROUP_CREATE, TOPIC_GROUP_UPDATE, TOPIC_GROUP_DELETE}

\* How a handler ended: returned or threw err, the mutations it applied in
\* order, and the requests it sent to the directory's admin API in order.
Res(outcome, err, muts, reqs) ==
    [outcome |-> outcome, err |-> err, muts |-> muts, reqs |-> reqs, parsed |-> None]

Done(muts, reqs) == Res("returned", None, muts, reqs)
Threw(err, reqs) == Res("threw", err, <<>>, reqs)

\* parseUser with the provider's user transformer, which may return undefined
\* for the user: the parsed entity, or nothing.
parseUser(d, u, groupIndex, transforms) ==
    IF transforms THEN <<ParseUser(d, u, groupIndex)>> ELSE <<>>

\* A handler's result after it called parseUser.
AfterParse(res, parsedUser) ==
    [res EXCEPT !.parsed = IF parsedUser = <<>> THEN "nothing" ELSE "entity"]

\* await ensureTokenValid(client, provider, logger) and then the request.
Checked(request) == <<"ensureTokenValid", request>>

\* new Map(): no key.
EmptyMap == [n \in {} |-> <<>>]

\* new Map().set(key, value)
MapOf(key, value) == [n \in {key} |-> value]

\* filter((entity): entity is Entity => !entity): keeps the elements that are
\* undefined.
FilterNot(optionals) == SelectSeq(optionals, LAMBDA e : e = <<>>)

\* filter((entity): entity is Entity => !!entity): keeps the defined elements.
FilterDefined(optionals) == SelectSeq(optionals, LAMBDA e : e # <<>>)

RECURSIVE Unwrap(_)
\* The values of a list of defined optionals.
Unwrap(optionals) ==
    IF optionals = <<>> THEN <<>> ELSE <<Head(optionals)[1]>> \o Unwrap(Tail(optionals))

\* Position of an entity name in the order in which the catalog lists relations.
NameOrd(n) == IF n \in {"alice", "dev"} THEN 1 ELSE 2

RECURSIVE RefsToSeq(_)
\* A set of entity refs as a list, in the catalog's order.
RefsToSeq(refs) ==
    IF refs = {} THEN <<>>
    ELSE LET r == CHOOSE x \in refs : \A y \in refs : NameOrd(x[2]) <= NameOrd(y[2])
         IN  <<r>> \o RefsToSeq(refs \ {r})

RECURSIVE GetEntitiesByRefSeq(_, _)
\* Promise.all(refs.map(ref => catalogApi.getEntityByRef(ref)))
GetEntitiesByRefSeq(cat, refs) ==
    IF refs = <<>> THEN <<>>
    ELSE <<GetEntityByRef(cat, Head(refs))>> \o GetEntitiesByRefSeq(cat, Tail(refs))

\* getEntitiesByRefs
getEntitiesByRefs(cat, refs) == Unwrap(FilterDefined(GetEntitiesByRefSeq(cat, refs)))

RECURSIVE processGroupsRecursively(_, _)
\* processGroupsRecursively: every group followed by its subgroups, recursively.
processGroupsRecursively(d, groups) ==
    IF groups = <<>> THEN <<>>
    ELSE <<Head(groups)>>
         \o processGroupsRecursively(d, SetToSeq(KcSubGroups(d, Head(groups))))
         \o processGroupsRecursively(d, Tail(groups))

RECURSIVE RecursionReqs(_, _)
RecursionReqs(d, groups) ==
    IF groups = <<>> THEN <<>>
    ELSE (IF KcSubGroups(d, Head(groups)) # {}
          THEN Checked("groups.listSubGroups")
               \o RecursionReqs(d, SetToSeq(KcSubGroups(d, Head(groups))))
          ELSE <<>>)
         \o RecursionReqs(d, Tail(groups))

RECURSIVE PopulateReqs(_, _)
\* The requests that fetch members, subgroups and parent of each group.
PopulateReqs(d, groups) ==
    IF groups = <<>> THEN <<>>
    ELSE Checked("groups.listMembers")
         \o (IF KcSubGroups(d, Head(groups)) # {}
             THEN Checked("groups.listSubGroups") ELSE <<>>)
         \o (IF KcParent(Head(groups)) # None THEN Checked("groups.findOne") ELSE <<>>)
         \o PopulateReqs(d, Tail(groups))

\* createGroupEntities on a server of version 23 or higher: the groups given
\* and their subgroups, each with members, subgroups and parent fetched, parsed.
createGroupEntities(d, allGroups) ==
    LET rawKGroups == processGroupsRecursively(d, allGroups)
    IN  [entities |-> GroupEntitiesOf(d, rawKGroups),
         reqs |-> <<"serverInfo.find">> \o RecursionReqs(d, allGroups)
                  \o PopulateReqs(d, rawKGroups)]

\* A handleUserCreate that would not look at what parseUser yields.
handleUserCreateUnparsed(d, cat, userId, transforms) ==
    LET reqs == Checked("users.findOne")
    IN  IF userId \notin d.users THEN Done(<<>>, reqs)
        ELSE LET userEntity == parseUser(d, userId, EmptyMap, transforms)
                 added == addEntitiesOperation(userEntity).added
             IN  AfterParse(Done(<<DeltaMutation(added, <<>>)>>, reqs), userEntity)

\* handleUserCreate
handleUserCreate(d, cat, userId, transforms) ==
    LET reqs == Checked("users.findOne")
    IN  IF userId \notin d.users THEN Done(<<>>, reqs)
        ELSE LET userEntity == parseUser(d, userId, EmptyMap, transforms)
                 added == addEntitiesOperation(userEntity).added
             IN  IF userEntity = <<>> THEN AfterParse(Done(<<>>, reqs), userEntity)
                 ELSE AfterParse(Done(<<DeltaMutation(added, <<>>)>>, reqs), userEntity)

\* handleUserDelete.  It is declared (userId, logger) and called with
\* (userId, client, provider, logger): its logger is the admin client, which
\* has no debug method.
handleUserDelete(d, cat, userId) ==
    LET items == GetEntityById(cat, "User", userId)
    IN  IF items = <<>> THEN Threw("TypeError", <<>>)
        ELSE LET op == removeEntitiesOperation(<<items[1]>>)
             IN  Done(<<DeltaMutation(op.added, op.removed)>>, <<>>)

\* onUserEdit
onUserEdit(d, cat, userId, transforms) ==
    LET items == GetEntityById(cat, "User", userId)
        oldGroupEntityRefs ==
            IF items = <<>> THEN <<>> ELSE RefsToSeq(MemberOfRefs(cat, items[1]))
        oldGroupEntities == FilterNot(GetEntitiesByRefSeq(cat, oldGroupEntityRefs))
    IN  \* group.metadata of an undefined group
        IF oldGroupEntities # <<>> THEN Threw("TypeError", <<>>)
        ELSE
        LET \* no old group entity is left, so no group is looked up
            allGroups == <<>>
            parsed == createGroupEntities(d, allGroups)
            reqs == parsed.reqs \o Checked("users.findOne")
        IN  IF userId \notin d.users THEN Done(<<>>, reqs)
            ELSE
            LET userToGroupMapping ==
                    MapOf(UserName(userId),
                          [i \in 1..Len(parsed.entities) |-> parsed.entities[i].name])
                newUserEntity == parseUser(d, userId, userToGroupMapping, transforms)
            IN  IF newUserEntity = <<>> \/ items = <<>>
                THEN AfterParse(Done(<<>>, reqs), newUserEntity)
                ELSE AfterParse(
                         Done(<<DeltaMutation(
                                  addEntitiesOperation(newUserEntity).added,
                                  removeEntitiesOperation(<<items[1]>>).removed)>>,
                              reqs),
                         newUserEntity)

\* onUserEvent
onUserEvent(d, cat, conn, payload, transforms) ==
    IF ~conn THEN Threw("NotFoundError", <<>>)
    ELSE LET userId == payload.resourcePath[2]
         IN  IF payload.type = TOPIC_USER_CREATE THEN handleUserCreate(d, cat, userId, transforms)
             ELSE IF payload.type = TOPIC_USER_DELETE THEN handleUserDelete(d, cat, userId)
             ELSE IF payload.type = TOPIC_USER_UPDATE THEN onUserEdit(d, cat, userId, transforms)
             ELSE Done(<<>>, <<>>)

\* onMembershipChange
onMembershipChange(d, cat, conn, payload, transforms) ==
    IF ~conn THEN Threw("NotFoundError", <<>>)
    ELSE
    LET userId == payload.resourcePath[2]
        groupId == payload.resourcePath[4]
        items == GetEntityById(cat, "User", userId)
    IN  IF userId \notin d.users THEN Done(<<>>, Checked("users.findOne"))
        \* newGroup.members = ... of an undefined newGroup
        ELSE IF groupId \notin d.groups
        THEN Threw("TypeError", Checked("users.findOne") \o Checked("groups.findOne")
                                \o Checked("groups.listMembers"))
        ELSE
        LET reqs == Checked("users.findOne") \o Checked("groups.findOne")
                    \o Checked("groups.listMembers")
            parsedGroup == ParseGroup(d, groupId, None, {}, KcMembersOf(d, groupId))
        IN  \* oldUserEntity.spec of an undefined oldUserEntity
            IF items = <<>> THEN Threw("TypeError", reqs)
            ELSE
            LET oldUserEntity == items[1]
                memberOf == oldUserEntity.memberOf
                index == IndexOf(memberOf, parsedGroup.name)
                currentGroupMemberships ==
                    IF payload.type = TOPIC_USER_ADD_GROUP
                    THEN Append(memberOf, parsedGroup.name)
                    ELSE IF index > 0 THEN Splice1(memberOf, index) ELSE memberOf
                memberToGroupMap == MapOf(oldUserEntity.name, currentGroupMemberships)
                newUserEntity == parseUser(d, userId, memberToGroupMap, transforms)
                \* push and splice change the old entity's own memberOf array
                changedOld == [oldUserEntity EXCEPT !.memberOf = currentGroupMemberships]
            IN  IF newUserEntity = <<>> THEN AfterParse(Done(<<>>, reqs), newUserEntity)
                ELSE AfterParse(
                         Done(<<DeltaMutation(
                                  addEntitiesOperation(newUserEntity).added,
                                  removeEntitiesOperation(<<changedOld>>).removed)>>,
                              reqs),
                         newUserEntity)

\* client.groups.findOne: the group's id when the realm has it, else undefined.
FindGroup(d, groupId) == IF groupId \in d.groups THEN <<groupId>> ELSE <<>>

\* handleGroupCreate
handleGroupCreate(d, cat, payload) ==
    LET resourcePath == payload.resourcePath
    IN  IF Len(resourcePath) = 2
        THEN LET groupId == resourcePath[2]
                 reqs == Checked("groups.findOne")
             IN  IF FindGroup(d, groupId) = <<>> THEN Done(<<>>, reqs)
                 ELSE LET groupEntity == ParseGroup(d, groupId, None, {}, {})
                          added == addEntitiesOperation(<<groupEntity>>).added
                      IN  Done(<<DeltaMutation(added, <<>>)>>, reqs)
        ELSE IF Len(resourcePath) = 3
        THEN LET parentGroupId == resourcePath[2]
                 subgroupId == payload.representation
                 oldParent == GetEntityById(cat, "Group", parentGroupId)
             IN  IF FindGroup(d, parentGroupId) = <<>>
                 THEN Done(<<>>, Checked("groups.findOne"))
                 ELSE IF FindGroup(d, subgroupId) = <<>>
                 THEN Done(<<>>, Checked("groups.findOne") \o Checked("groups.findOne"))
                 ELSE IF oldParent = <<>>
                 THEN Done(<<>>, Checked("groups.findOne") \o Checked("groups.findOne"))
                 ELSE
                 LET created == createGroupEntities(d, <<subgroupId, parentGroupId>>)
                     reqs == Checked("groups.findOne") \o Checked("groups.findOne")
                             \o created.reqs
                 IN  IF created.entities = <<>> THEN Done(<<>>, reqs)
                     ELSE Done(<<DeltaMutation(
                                    addEntitiesOperation(created.entities).added,
                                    removeEntitiesOperation(<<oldParent[1]>>).removed)>>,
                               reqs)
        ELSE Done(<<>>, <<>>)

\* getParentEntityRef: the target of the group's first childOf relation.
getParentEntityRef(cat, group) ==
    LET refs == RefsToSeq(ChildOfRefs(cat, group))
    IN  IF refs = <<>> THEN <<>> ELSE <<refs[1]>>

\* getSubgroupRefs
getSubgroupRefs(cat, group) == RefsToSeq(ParentOfRefs(cat, group))

RECURSIVE AppendNew(_, _)
\* The keys of a Map after setting the keys given, in insertion order.
AppendNew(keys, more) ==
    IF more = <<>> THEN keys
    ELSE AppendNew(IF Head(more) \in Range(keys) THEN keys ELSE Append(keys, Head(more)),
                   Tail(more))

RECURSIVE SubgroupMemberRefs(_, _)
SubgroupMemberRefs(cat, subgroups) ==
    IF subgroups = <<>> THEN <<>>
    ELSE RefsToSeq(HasMemberRefs(cat, Head(subgroups)))
         \o SubgroupMemberRefs(cat, Tail(subgroups))

\* collectUserMemberships: the refs of the users that are members of the
\* deleted group or of one of its subgroups (the keys of the map it returns).
collectUserMemberships(cat, deletedGroup, validSubgroupEntities) ==
    AppendNew(RefsToSeq(HasMemberRefs(cat, deletedGroup)),
              SubgroupMemberRefs(cat, validSubgroupEntities))

RECURSIVE updateUserEntitiesAfterGroupDelete(_, _, _)
\* updateUserEntitiesAfterGroupDelete: every listed user the catalog holds is
\* removed; those the realm still has are added again, memberOf being the names
\* of the groups the realm lists for them.
updateUserEntitiesAfterGroupDelete(d, cat, userRefs) ==
    IF userRefs = <<>>
    THEN [oldUserEntities |-> <<>>, newUserEntities |-> <<>>, reqs |-> <<>>]
    ELSE
    LET rest == updateUserEntitiesAfterGroupDelete(d, cat, Tail(userRefs))
        inCatalog == GetEntityByRef(cat, Head(userRefs))
    IN  IF inCatalog = <<>> THEN rest
        ELSE IF inCatalog[1].id \notin d.users
        THEN [rest EXCEPT !.oldUserEntities = <<inCatalog[1]>> \o @,
                          !.reqs = Checked("users.findOne") \o @]
        ELSE
        LET id == inCatalog[1].id
            allGroups == SetToSeq(KcGroupsOf(d, id))
            entity == Entity("User", UserName(id), id, d.urev[id], NamesOf(allGroups),
                             None, {}, {})
        IN  [oldUserEntities |-> <<inCatalog[1]>> \o rest.oldUserEntities,
             newUserEntities |-> <<entity>> \o rest.newUserEntities,
             \* getAllGroups is given () => Promise.resolve(client.users): the
             \* user's groups are listed without a token check
             reqs |-> Checked("users.findOne") \o <<"users.listGroups">>
                      \o createGroupEntities(d, allGroups).reqs \o rest.reqs]

\* handleGroupDelete
handleGroupDelete(d, cat, groupId) ==
    LET items == GetEntityById(cat, "Group", groupId)
    IN  \* group.relations of an undefined group
        IF items = <<>> THEN Threw("TypeError", <<>>)
        ELSE
        LET deletedGroup == items[1]
            parentEntityRef == getParentEntityRef(cat, deletedGroup)
            subgroupRefs == getSubgroupRefs(cat, deletedGroup)
            oldParentEntity ==
                IF parentEntityRef = <<>> THEN <<>>
                ELSE GetEntityByRef(cat, parentEntityRef[1])
            validSubgroupEntities == getEntitiesByRefs(cat, subgroupRefs)
            newParent ==
                IF oldParentEntity = <<>> THEN <<>>
                ELSE FindGroup(d, oldParentEntity[1].id)
            created == createGroupEntities(d, newParent)
            newParentEntity ==
                IF created.entities = <<>> THEN <<>> ELSE <<created.entities[1]>>
            userMembershipsToUpdate ==
                collectUserMemberships(cat, deletedGroup, validSubgroupEntities)
            users == updateUserEntitiesAfterGroupDelete(d, cat, userMembershipsToUpdate)
            added == addEntitiesOperation(newParentEntity \o users.newUserEntities).added
            removed == removeEntitiesOperation(
                           <<deletedGroup>> \o oldParentEntity \o validSubgroupEntities
                           \o users.oldUserEntities).removed
        IN  Done(<<DeltaMutation(added, removed)>>,
                 (IF oldParentEntity = <<>> THEN <<>> ELSE Checked("groups.findOne"))
                 \o created.reqs \o users.reqs)

\* onGroupEvent.  GROUP-UPDATE is left to do (a TODO in the source): the
\* handler returns without a request or a mutation.
onGroupEvent(d, cat, conn, payload) ==
    IF ~conn THEN Threw("NotFoundError", <<>>)
    ELSE IF payload.type = TOPIC_GROUP_CREATE THEN handleGroupCreate(d, cat, payload)
    ELSE IF payload.type = TOPIC_GROUP_DELETE
    THEN handleGroupDelete(d, cat, payload.resourcePath[2])
    ELSE Done(<<>>, <<>>)

----------------------------------------------------------------------------
(* The event router *)

\* A router that would hand every type it does not know to the group handler.
RouteUnknownToGroup(type) ==
    IF type \in {TOPIC_USER_CREATE, TOPIC_USER_DELETE, TOPIC_USER_UPDATE}
    THEN <<"user">>
    ELSE IF type \in {TOPIC_USER_ADD_GROUP, TOPIC_USER_REMOVE_GROUP}
    THEN <<"membership">>
    ELSE <<"group">>

\* The handler families onEvent calls for a payload type, in order: one `if`
\* per family.
Route(type) ==
    (IF type \in {TOPIC_USER_CREATE, TOPIC_USER_DELETE, TOPIC_USER_UPDATE}
     THEN <<"user">> ELSE <<>>)
    \o (IF type \in {TOPIC_USER_ADD_GROUP, TOPIC_USER_REMOVE_GROUP}
        THEN <<"membership">> ELSE <<>>)
    \o (IF type \in {TOPIC_GROUP_CREATE, TOPIC_GROUP_UPDATE, TOPIC_GROUP_DELETE}
        THEN <<"group">> ELSE <<>>)

Families == {"user", "membership", "group"}

\* One handler family on a payload.
Handler(family, d, cat, conn, payload, transforms) ==
    IF family = "user" THEN onUserEvent(d, cat, conn, payload, transforms)
    ELSE IF family = "membership"
    THEN onMembershipChange(d, cat, conn, payload, transforms)
    ELSE onGroupEvent(d, cat, conn, payload)

RECURSIVE ApplyAll(_, _)
\* The catalog after the mutations given, applied in order.
ApplyAll(cat, muts) ==
    IF muts = <<>> THEN cat ELSE ApplyAll(ApplyMutation(cat, Head(muts)), Tail(muts))

RECURSIVE Dispatch(_, _, _, _, _, _)
\* The handlers of the families given, awaited one after the other; a handler
\* that throws ends the callback.
Dispatch(families, d, cat, conn, payload, transforms) ==
    IF families = <<>> THEN Done(<<>>, <<>>)
    ELSE LET first == Handler(Head(families), d, cat, conn, payload, transforms)
         IN  IF first.outcome = "threw" THEN first
             ELSE LET rest == Dispatch(Tail(families), d, ApplyAll(cat, first.muts),
                                       conn, payload, transforms)
                  IN  [Res(rest.outcome, rest.err, first.muts \o rest.muts,
                           first.reqs \o rest.reqs)
                         EXCEPT !.parsed = IF rest.parsed # None THEN rest.parsed
                                           ELSE first.parsed]

\* The families onEvent reaches: none when authenticate throws.
Dispatched(payload, authOk) == IF authOk THEN Route(payload.type) ELSE <<>>

\* onEvent: authenticate a new admin client, then dispatch on the payload type.
onEvent(d, cat, conn, payload, authOk, transforms) ==
    IF ~authOk THEN Threw("AuthenticationError", <<"authenticate">>)
    ELSE LET res == Dispatch(Route(payload.type), d, cat, conn, payload, transforms)
         IN  [res EXCEPT !.reqs = <<"authenticate">> \o @]

\* The well-formed payloads of the realm's admin events.
Payloads ==
    {[type |-> t, resourcePath |-> <<"users", u>>, representation |-> None] :
        t \in UserTopics, u \in UserIds}
    \cup {[type |-> t, resourcePath |-> <<"users", u, "groups", g>>,
           representation |-> None] :
            t \in MembershipTopics, u \in UserIds, g \in GroupIds}
    \cup {[type |-> t, resourcePath |-> <<"groups", g>>, representation |-> None] :
            t \in GroupTopics, g \in GroupIds}
    \cup {[type |-> TOPIC_GROUP_CREATE,
           resourcePath |-> <<"groups", KcParent(g), "children">>,
           representation |-> g] : g \in {h \in GroupIds : KcParent(h) # None}}
    \cup {[type |-> TOPIC_OTHER, resourcePath |-> <<"clients", "c1">>,
           representation |-> None]}

\* The payloads a handler family is made for.
PayloadsOf(family) ==
    {p \in Payloads : p.type \in (IF family = "user" THEN UserTopics
                                  ELSE IF family = "membership" THEN MembershipTopics
                                  ELSE GroupTopics)}

\* No user entity a result adds has more than MaxMemberOf memberships.
WithinBounds(res) ==
    \A i \in 1..Len(res.muts) : \A j \in 1..Len(res.muts[i].added) :
        Len(res.muts[i].added[j].entity.memberOf) <= MaxMemberOf

EventObs(op, payload, families, res) ==
    [Obs0 EXCEPT !.op = op, !.payload = payload, !.families = families,
                 !.outcome = res.outcome, !.err = res.err, !.muts = res.muts,
                 !.reqs = res.reqs, !.parsed = res.parsed]

\* What the user transformer may do with the user of an event: return the
\* entity or undefined.  It is called only by the handlers of user creation,
\* user update and membership events; for the other events, and when
\* authenticate throws, one outcome stands for both.
TransformOutcomes(payload, authOk) ==
    IF authOk /\ payload.type \in {TOPIC_USER_CREATE, TOPIC_USER_UPDATE,
                                    TOPIC_USER_ADD_GROUP, TOPIC_USER_REMOVE_GROUP}
    THEN BOOLEAN ELSE {TRUE}

\* The events service delivers an event of the 'keycloak' topic to onEvent.
\* The remote calls of a handler are taken to succeed; authenticate, which
\* decides whether a handler is reached at all, may fail.
OnEvent ==
    /\ subscribed
    /\ delivered < MaxEvents
    /\ delivered' = delivered + 1
    /\ \E payload \in Payloads, authOk \in BOOLEAN :
       \E transforms \in TransformOutcomes(payload, authOk) :
       \E res \in {onEvent(kc, catalog, connection, payload, authOk, transforms)} :
         /\ WithinBounds(res)
         /\ catalog' = ApplyAll(catalog, res.muts)
         /\ last' = EventObs("event", payload, Dispatched(payload, authOk), res)
    /\ UNCHANGED <<kc, kcChanges, connection, subscribed, runnerTasks, counter,
                   taskInstanceIds, run, ext, cfg, fetch, ldap, logo>>

\* A handler called directly before connect, as nothing but the language's
\* `private` keeps a caller from doing.  (After connect a direct call does
\* what the same handler does when onEvent reaches it.)
CallHandler ==
    /\ ~connection
    /\ \E family \in Families :
         \E payload \in PayloadsOf(family) :
         \E transforms \in TransformOutcomes(payload, TRUE) :
         \E res \in {Handler(family, kc, catalog, connection, payload, transforms)} :
           /\ WithinBounds(res)
           /\ catalog' = ApplyAll(catalog, res.muts)
           /\ last' = EventObs("call", payload, <<family>>, res)
    /\ UNCHANGED <<kc, kcChanges, connection, subscribed, runnerTasks, counter,
                   taskInstanceIds, run, delivered, ext, cfg, fetch, ldap, logo>>

\* The refresh task run to its end with every remote call succeeding: read()
\* as ReadAuthenticate, ReadRealm and ReadCommit take it, in one step.
Refresh ==
    /\ connection
    /\ LET realm == readKeycloakRealm(kc, kc.users, kc.groups)
           m == ReadMutation(realm.users, realm.groups)
       IN  /\ catalog' = ApplyMutation(catalog, m)
           /\ last' = [Obs0 EXCEPT !.op = "refresh", !.outcome = "returned"]
    /\ UNCHANGED <<kc, kcChanges, connection, subscribed, runnerTasks, counter,
                   taskInstanceIds, run, delivered, ext, cfg, fetch, ldap, logo>>

----------------------------------------------------------------------------
(* The keycloak.transformer extension point *)

\* The transformers a module may pass to the extension point.
Transformers == {"t1", "t2", "t3"}

\* register's closure before any call: both transformers undefined.  calls is
\* the record of the setter calls made so far, in order.
Ext0 == [userTransformer |-> <<>>, groupTransformer |-> <<>>, calls |-> <<>>]

\* A setter without the set-once check.
setUserTransformerOverwrite(userTransformer, transformer) ==
    [value |-> <<transformer>>, outcome |-> "returned", err |-> None]

\* setUserTransformer(transformer), given the closure's userTransformer: the
\* value it leaves there and how the call ends.
setUserTransformer(userTransformer, transformer) ==
    IF userTransformer # <<>>
    THEN [value |-> userTransformer, outcome |-> "threw", err |-> "InputError"]
    ELSE [value |-> <<transformer>>, outcome |-> "returned", err |-> None]

\* setGroupTransformer(transformer), given the closure's groupTransformer.
setGroupTransformer(groupTransformer, transformer) ==
    IF groupTransformer # <<>>
    THEN [value |-> groupTransformer, outcome |-> "threw", err |-> "InputError"]
    ELSE [value |-> <<transformer>>, outcome |-> "returned", err |-> None]

ExtCall(kind, transformer, res) ==
    [kind |-> kind, transformer |-> transformer, outcome |-> res.outcome,
     err |-> res.err]

\* A module calls setUserTransformer on the extension point.
SetUserTransformer ==
    /\ Len(ext.calls) < MaxSetCalls
    /\ \E transformer \in Transformers :
         LET res == setUserTransformer(ext.userTransformer, transformer)
         IN  ext' = [ext EXCEPT !.userTransformer = res.value,
                                !.calls = Append(@, ExtCall("user", transformer, res))]
    /\ UNCHANGED <<engineVars, cfg, fetch, ldap, logo>>

\* A module calls setGroupTransformer on the extension point.
SetGroupTransformer ==
    /\ Len(ext.calls) < MaxSetCalls
    /\ \E transformer \in Transformers :
         LET res == setGroupTransformer(ext.groupTransformer, transformer)
         IN  ext' = [ext EXCEPT !.groupTransformer = res.value,
                                !.calls = Append(@, ExtCall("group", transformer, res))]
    /\ UNCHANGED <<engineVars, cfg, fetch, ldap, logo>>

----------------------------------------------------------------------------
(* fromConfig *)

\* The ids and the schedules of provider configurations; None is a
\* configuration without a schedule.
ConfigIds == {"default", "prod"}
ConfigSchedules == {None, "PT30M", "PT1H"}

ProviderConfigs == [id : ConfigIds, schedule : ConfigSchedules]

\* What readProviderConfigs(config) may return: up to MaxConfigs provider
\* configurations, in the order of the configuration's keys.
ConfigLists == UNION {[1..n -> ProviderConfigs] : n \in 0..MaxConfigs}

\* The options of fromConfig, by the keys they carry.
Options == [scheduler : BOOLEAN, schedule : BOOLEAN]

\* The options catalogModuleKeycloakEntityProvider's init passes: the scheduler
\* service and a runner of its own (every 24 hours).
ModuleOptions == [scheduler |-> TRUE, schedule |-> TRUE]

\* scheduler.createScheduledTaskRunner(schedule)
createScheduledTaskRunner(schedule) == "runner:" \o schedule

\* The runner passed as options.schedule.
OptionsSchedule == "options.schedule"

\* A callback that would prefer options.schedule to the configured schedule.
TaskRunnerForOptionsFirst(providerConfig, options) ==
    IF options.schedule THEN OptionsSchedule
    ELSE IF options.scheduler /\ providerConfig.schedule # None
    THEN createScheduledTaskRunner(providerConfig.schedule)
    ELSE None

\* The body of fromConfig's map callback up to the constructor: the task
\* runner chosen for one provider configuration, None when it throws.
TaskRunnerFor(providerConfig, options) ==
    IF options.scheduler /\ providerConfig.schedule # None
    THEN createScheduledTaskRunner(providerConfig.schedule)
    ELSE IF options.schedule THEN OptionsSchedule
    ELSE None

\* The provider the callback constructs.
NewProvider(providerConfig, options) ==
    [id |-> providerConfig.id, taskRunner |-> TaskRunnerFor(providerConfig, options)]

RECURSIVE MapConfigs(_, _)
\* Array.prototype.map over the provider configurations: the first callback
\* that throws ends the whole call.
MapConfigs(configs, options) ==
    IF configs = <<>>
    THEN [outcome |-> "returned", err |-> None, errId |-> None, providers |-> <<>>]
    ELSE IF TaskRunnerFor(Head(configs), options) = None
    THEN [outcome |-> "threw", err |-> "InputError", errId |-> Head(configs).id,
          providers |-> <<>>]
    ELSE LET rest == MapConfigs(Tail(configs), options)
         IN  IF rest.outcome = "threw" THEN rest
             ELSE [rest EXCEPT !.providers =
                                 <<NewProvider(Head(configs), options)>> \o @]

\* fromConfig(deps, options), deps.config holding the configurations given.
fromConfig(configs, options) == MapConfigs(configs, options)

\* cfg before any call of fromConfig.
Cfg0 ==
    [caller |-> None, configs |-> <<>>, options |-> [scheduler |-> FALSE, schedule |-> FALSE],
     result |-> MapConfigs(<<>>, [scheduler |-> FALSE, schedule |-> FALSE])]

\* fromConfig called by a backend of its own making, with any options.
FromConfig ==
    /\ \E configs \in ConfigLists, options \in Options :
         cfg' = [caller |-> "direct", configs |-> configs, options |-> options,
                 result |-> fromConfig(configs, options)]
    /\ UNCHANGED <<engineVars, ext, fetch, ldap, logo>>

\* catalogModuleKeycloakEntityProvider's init: fromConfig with the scheduler
\* and the module's own daily runner.
ModuleInit ==
    /\ \E configs \in ConfigLists :
         cfg' = [caller |-> "module", configs |-> configs, options |-> ModuleOptions,
                 result |-> fromConfig(configs, ModuleOptions)]
    /\ UNCHANGED <<engineVars, ext, fetch, ldap, logo>>

----------------------------------------------------------------------------
(* The concurrency limit of read() *)

\* Fetches readKeycloakRealm queues behind the limit in one read().
MaxFetches == 22
\* The largest provider.maxConcurrency configured.
MaxConfiguredConcurrency == 2

\* The concurrency of a provider without maxConcurrency.
DefaultConcurrency == 20

\* provider.maxConcurrency: undefined (<<>>) or a configured number.
MaxConcurrencyValues == {<<>>} \cup {<<n>> : n \in 0..MaxConfiguredConcurrency}

\* A read() that would take the default whatever the configuration says.
ConcurrencyUnconfigured(maxConcurrency) == DefaultConcurrency

\* const concurrency = provider.maxConcurrency ?? 20
Concurrency(maxConcurrency) ==
    IF maxConcurrency = <<>> THEN DefaultConcurrency ELSE maxConcurrency[1]

\* limitFunc(concurrency): p-limit accepts an integer from 1 up and throws a
\* TypeError otherwise.
limitFunc(concurrency) == IF concurrency >= 1 THEN "limit" ELSE "TypeError"

\* The fetches of a read(): not reading.
Fetch0 ==
    [pc |-> "idle", maxConcurrency |-> <<>>, concurrency |-> 0, queued |-> 0,
     active |-> 0]

\* read() creates the limit and hands it to readKeycloakRealm, which queues
\* its fetches (pages of users and of groups, members of each group) behind it.
FetchBegin ==
    /\ fetch.pc # "reading"
    /\ \E maxConcurrency \in MaxConcurrencyValues, n \in 1..MaxFetches :
         LET concurrency == Concurrency(maxConcurrency)
         IN  fetch' = IF limitFunc(concurrency) = "TypeError"
                      THEN [Fetch0 EXCEPT !.pc = "threw",
                                          !.maxConcurrency = maxConcurrency,
                                          !.concurrency = concurrency]
                      ELSE [pc |-> "reading", maxConcurrency |-> maxConcurrency,
                            concurrency |-> concurrency, queued |-> n, active |-> 0]
    /\ UNCHANGED <<engineVars, ext, cfg, ldap, logo>>

\* The limit lets a queued fetch go out to the directory: p-limit starts a
\* queued function only while fewer than `concurrency` of them are running.
FetchStart ==
    /\ fetch.pc = "reading"
    /\ fetch.queued > 0
    /\ fetch.active < fetch.concurrency
    /\ fetch' = [fetch EXCEPT !.queued = @ - 1, !.active = @ + 1]
    /\ UNCHANGED <<engineVars, ext, cfg, ldap, logo>>

\* A fetch in flight settles; the read goes on to its commit after the last.
FetchSettle ==
    /\ fetch.pc = "reading"
    /\ fetch.active > 0
    /\ fetch' = [fetch EXCEPT !.active = @ - 1,
                              !.pc = IF fetch.queued = 0 /\ fetch.active = 1
                                     THEN "done" ELSE @]
    /\ UNCHANGED <<engineVars, ext, cfg, ldap, logo>>

----------------------------------------------------------------------------
(* The LDAP transformer module: myUserTransformer *)

\* The attributes of an LDAP search entry that the transformer may read.
LdapAttributes == {"uid", "cn", "mail", "dn"}

\* What vendor.decodeStringAttribute may give for an attribute: undefined, or
\* the list of its decoded values.
Undecoded == [defined |-> FALSE, values |-> <<>>]
Decoded(values) == [defined |-> TRUE, values |-> values]
\* The search entries: every attribute undefined or with a list of values.
LdapEntries ==
    [LdapAttributes -> {Undecoded, Decoded(<<>>), Decoded(<<"">>), Decoded(<<"ann">>),
                        Decoded(<<"ann", "bob">>), Decoded(<<"", "ann">>)}]

\* config.map: name is required, displayName and email are optional ("" is
\* a mapping that is not configured).
LdapMaps == [name : {"uid"}, displayName : {"", "cn", "uid"}, email : {"", "mail"}]

\* vendor.decodeStringAttribute(entry, name)
decodeStringAttribute(entry, name) == entry[name]

\* `values && values.length > 0`
HasValue(decoded) == decoded.defined /\ Len(decoded.values) > 0

\* The entity myUserTransformer starts from.
LdapEntity0 ==
    [name |-> "", displayName |-> <<>>, email |-> <<>>, annotation |-> <<>>]

\* The optional fields and the custom annotation of the entity.
LdapOptionalFields(vendor, map, entry, entity) ==
    LET display == IF map.displayName # ""
                   THEN decodeStringAttribute(entry, map.displayName) ELSE Undecoded
        email == IF map.email # ""
                 THEN decodeStringAttribute(entry, map.email) ELSE Undecoded
        dnValues == decodeStringAttribute(entry, vendor.dnAttributeName)
    IN  [entity EXCEPT
           !.displayName = IF HasValue(display) THEN <<display.values[1]>> ELSE @,
           !.email = IF HasValue(email) THEN <<email.values[1]>> ELSE @,
           !.annotation = IF HasValue(dnValues) THEN <<dnValues.values[1]>> ELSE @]

\* A transformer without the check of the name.
myUserTransformerUnchecked(vendor, map, entry) ==
    LET nameValues == decodeStringAttribute(entry, map.name)
        named == [LdapEntity0 EXCEPT
                    !.name = IF HasValue(nameValues) THEN nameValues.values[1] ELSE @]
    IN  [outcome |-> "returned", err |-> None,
         entity |-> LdapOptionalFields(vendor, map, entry, named)]

\* myUserTransformer(vendor, config, entry), config.map being map.
myUserTransformer(vendor, map, entry) ==
    LET nameValues == decodeStringAttribute(entry, map.name)
        named == [LdapEntity0 EXCEPT
                    !.name = IF HasValue(nameValues) THEN nameValues.values[1] ELSE @]
    IN  IF named.name = ""
        THEN [outcome |-> "threw", err |-> "Error", entity |-> LdapEntity0]
        ELSE [outcome |-> "returned", err |-> None,
              entity |-> LdapOptionalFields(vendor, map, entry, named)]

\* ldap before the transformer is called.
Ldap0 ==
    [called |-> FALSE, map |-> [name |-> "uid", displayName |-> "", email |-> ""],
     entry |-> [a \in LdapAttributes |-> Undecoded],
     result |-> [outcome |-> None, err |-> None, entity |-> LdapEntity0]]

\* The LDAP provider calls the transformer on a search entry, with a vendor
\* whose DN attribute is "dn".
LdapTransform ==
    /\ ~ldap.called
    /\ \E map \in LdapMaps, entry \in LdapEntries :
         ldap' = [called |-> TRUE, map |-> map, entry |-> entry,
                  result |-> myUserTransformer([dnAttributeName |-> "dn"], map, entry)]
    /\ UNCHANGED <<engineVars, ext, cfg, fetch, logo>>

----------------------------------------------------------------------------
(* SidebarLogo, as its test suite describes it *)

\* What useAppBarThemedConfig returns for a logo key: undefined (<<>>) or the
\* configured base64 URI.
LogoConfigValues ==
    {<<>>, <<"fullLogoBase64URI">>, <<"iconLogoBase64URI">>, <<"lightURI">>,
     <<"darkURI">>}

\* The one logo rendered for a configured value and a default: the image
\* 'home-logo' with the configured src, or the default logo.
LogoRender(base64Logo, defaultLogo) ==
    IF base64Logo # <<>>
    THEN [testId |-> "home-logo", src |-> base64Logo]
    ELSE [testId |-> defaultLogo, src |-> <<>>]

\* A SidebarLogo that would render the full logo whether open or closed.
SidebarLogoAlwaysFull(isOpen, fullLogo, iconLogo, fullLogoWidth) ==
    <<LogoRender(fullLogo, "default-full-logo")>>

\* SidebarLogo: what it renders inside its home link, given the sidebar's
\* open state, the themed full and icon logo and the full logo's width.
SidebarLogo(isOpen, fullLogo, iconLogo, fullLogoWidth) ==
    IF isOpen
    THEN <<LogoRender(fullLogo, "default-full-logo")>>
    ELSE <<LogoRender(iconLogo, "default-icon-logo")>>

\* logo before any rendering.
Logo0 ==
    [mounted |-> FALSE, rendered |-> <<>>, isOpen |-> FALSE, fullLogo |-> <<>>, iconLogo |-> <<>>,
     fullLogoWidth |-> <<>>]

\* The sidebar renders its logo; configApi.getOptional gives the full logo's
\* width, or undefined.
RenderSidebarLogo ==
    /\ \E isOpen \in BOOLEAN, fullLogo \in LogoConfigValues,
          iconLogo \in LogoConfigValues,
          fullLogoWidth \in {<<>>, <<"fullLogoWidth">>, <<"200px">>} :
         logo' = [mounted |-> TRUE,
                  rendered |-> SidebarLogo(isOpen, fullLogo, iconLogo, fullLogoWidth),
                  isOpen |-> isOpen, fullLogo |-> fullLogo, iconLogo |-> iconLogo,
                  fullLogoWidth |-> fullLogoWidth]
    /\ UNCHANGED <<engineVars, ext, cfg, fetch, ldap>>

----------------------------------------------------------------------------
(* Properties of the refresh task (specification Spec) *)

\* A step in which a read() called by the task function throws.
ReadThrewInTask == run' # run /\ run'.viaTask /\ run'.pc = "threw"

\* C1: whenever the read() of a scheduled refresh throws, at whatever step, the
\* task function's catch block adds exactly 1 to the failure counter and the
\* task function resolves instead of rejecting; the counter moves in no other
\* step; the task stays with the runner, and the runner's next invocation
\* starts a new read() that gets as far as its first remote call.
C1_LogAndContinue ==
    /\ [][/\ counter' = counter + (IF ReadThrewInTask THEN 1 ELSE 0)
          /\ ReadThrewInTask => run'.fn = "resolved" /\ runnerTasks' = runnerTasks
          /\ (run.viaTask /\ run.pc = "threw" /\ taskInstanceIds' # taskInstanceIds)
                => run'.viaTask /\ run'.pc = "authenticating" /\ run'.err = None]_vars
    /\ [](run.viaTask /\ run.pc = "threw" /\ Len(taskInstanceIds) < MaxRuns
            => ENABLED TaskInvoke)

\* Two invocations of the task both failed, the second one in readKeycloakRealm,
\* and each was counted.
C1_Witness ==
    /\ run.viaTask /\ run.tid = 2 /\ run.pc = "threw" /\ run.fn = "resolved"
    /\ last.op = "read.realm" /\ counter = 2

\* What read() hands to applyMutation for the entities given: each entity with
\* its location annotations under the provider's location key.
CommittedEntities(read) ==
    [i \in 1..Len(read) |->
        [locationKey |-> "keycloak-org-provider:default",
         entity |-> [read[i] EXCEPT !.location =
                        "url:https://kc/admin/realms/r/"
                        \o (IF read[i].kind = "User" THEN "users/" ELSE "groups/")
                        \o read[i].id]]]

\* C2: a read() that returns has applied exactly one mutation, of type 'full',
\* whose entity list is the users readKeycloakRealm returned followed by the
\* groups it returned, each once and nothing else; the provider's entities in
\* the catalog are then exactly those, whatever the catalog held before.
C2_FullMutation ==
    /\ (run.pc = "returned" => run.applied)
    /\ (last.op = "read.commit" /\ last.outcome = "returned"
          => /\ Len(last.muts) = 1
             /\ last.muts[1].type = "full"
             /\ last.muts[1].added = CommittedEntities(last.users \o last.groups)
             /\ last.muts[1].removed = <<>>
             /\ catalog = {CommittedEntities(last.users \o last.groups)[i].entity :
                             i \in 1..Len(last.users) + Len(last.groups)})

\* The second refresh, after the realm changed, committed users and groups.
C2_Witness ==
    /\ last.op = "read.commit" /\ last.outcome = "returned"
    /\ last.users # <<>> /\ last.groups # <<>>
    /\ kcChanges = 1 /\ Len(taskInstanceIds) = 2 /\ run.viaTask

\* C3: a run of the task in which the failure counter is incremented is a run
\* whose applyMutation did not complete: the counter moves only in a step that
\* ends a task's read() with an error, and that read() has not committed.
C3_CountedRunDidNotCommit ==
    [][counter' # counter
         => run'.viaTask /\ run'.pc = "threw" /\ ~run'.applied /\ last'.muts = <<>>]_vars

\* applyMutation itself failed in a run of the task, and the run was counted.
C3_Witness ==
    /\ run.viaTask /\ run.pc = "threw" /\ last.op = "read.commit"
    /\ ~run.applied /\ counter = 1

\* C7: before connect() has stored a connection, read() and each of the user,
\* membership and group handlers throw NotFoundError, send no request to the
\* directory and apply no mutation; the catalog stays as it was.
C7_NotInitialized ==
    ~connection
      => /\ catalog = {}
         /\ last.op \in {"read", "task", "call", "event"}
              => /\ last.outcome = "threw"
                 /\ last.err = "NotFoundError"
                 /\ last.reqs = <<>>
                 /\ last.muts = <<>>
         /\ last.op = "read" => run.pc = "threw" /\ run.err = "NotFoundError"

\* The membership handler was called before connect, after read() was.
C7_Witness ==
    /\ ~connection /\ last.op = "call" /\ last.families = <<"membership">>
    /\ last.err = "NotFoundError" /\ run.pc = "threw" /\ run.err = "NotFoundError"

\* C10: the provider starts no refresh by itself.  connect() hands the runner
\* one task, with the id 'KeycloakOrgEntityProvider:<id>:refresh', and no other
\* step hands it any; every invocation of the task starts one read() under a
\* taskInstanceId no earlier invocation had; and no read() of the task starts
\* but by such an invocation.
C10_SchedulingDelegated ==
    [][/\ (connection' # connection)
            => runnerTasks' = Append(runnerTasks,
                                     "KeycloakOrgEntityProvider:default:refresh")
       /\ (connection' = connection) => runnerTasks' = runnerTasks
       /\ (taskInstanceIds' # taskInstanceIds)
            => /\ Len(runnerTasks) > 0
               /\ Len(taskInstanceIds') = Len(taskInstanceIds) + 1
               /\ SubSeq(taskInstanceIds', 1, Len(taskInstanceIds)) = taskInstanceIds
               /\ \A i \in 1..Len(taskInstanceIds) :
                     taskInstanceIds[i] # taskInstanceIds'[Len(taskInstanceIds')]
               /\ run'.viaTask
               /\ run'.tid = taskInstanceIds'[Len(taskInstanceIds')]
               /\ run'.pc = "authenticating"
               /\ RunEnded(run)
       /\ (run'.viaTask /\ run'.tid # run.tid) => taskInstanceIds' # taskInstanceIds
       /\ (run'.viaTask /\ ~run.viaTask) => taskInstanceIds' # taskInstanceIds
       /\ (catalog' # catalog) => run.pc = "committing" /\ last'.op = "read.commit"]_vars

\* The runner holds the one task and has invoked it twice.
C10_Witness ==
    /\ runnerTasks = <<"KeycloakOrgEntityProvider:default:refresh">>
    /\ taskInstanceIds = <<1, 2>> /\ run.viaTask /\ run.tid = 2
    /\ run.pc = "returned"

----------------------------------------------------------------------------
(* Properties of the incremental updates (specification SpecEvents) *)

\* The latest step delivered an event that got past authenticate.
EventHandled ==
    /\ last.op = "event"
    /\ ~(last.outcome = "threw" /\ last.err = "AuthenticationError")

\* C4: when an admin.GROUP-UPDATE event arrives for a group that is in the
\* directory and in the catalog, the provider applies a delta mutation that
\* carries the group as the directory now has it.
C4_GroupUpdateApplied ==
    (/\ EventHandled
     /\ last.payload.type = "admin.GROUP-UPDATE"
     /\ last.payload.resourcePath[2] \in kc.groups
     /\ GetEntityById(catalog, "Group", last.payload.resourcePath[2]) # <<>>)
      => /\ last.muts # <<>>
         /\ \A i \in 1..Len(last.muts) : last.muts[i].type = "delta"
         /\ \E i \in 1..Len(last.muts) : \E j \in 1..Len(last.muts[i].added) :
               /\ last.muts[i].added[j].entity.kind = "Group"
               /\ last.muts[i].added[j].entity.id = last.payload.resourcePath[2]
               /\ last.muts[i].added[j].entity.rev
                    = kc.grev[last.payload.resourcePath[2]]

\* The handler family the type of an event belongs to, if any.
FamilyOfType(type) ==
    IF type \in {"admin.USER-CREATE", "admin.USER-DELETE", "admin.USER-UPDATE"}
    THEN <<"user">>
    ELSE IF type \in {"admin.GROUP_MEMBERSHIP-CREATE", "admin.GROUP_MEMBERSHIP-DELETE"}
    THEN <<"membership">>
    ELSE IF type \in {"admin.GROUP-CREATE", "admin.GROUP-UPDATE", "admin.GROUP-DELETE"}
    THEN <<"group">>
    ELSE <<>>

\* C5: an event reaches at most one handler family, the one its type names
\* (the three user types the user handler, the two membership types the
\* membership handler, the three group types the group handler); an event of
\* any other type reaches none and applies no mutation.
C5_Routing ==
    last.op = "event"
      => /\ Len(last.families) <= 1
         /\ EventHandled => last.families = FamilyOfType(last.payload.type)
         /\ FamilyOfType(last.payload.type) = <<>>
              => last.families = <<>> /\ last.muts = <<>>

\* A membership event reached the membership handler, which applied a
\* mutation; an event of an unknown type can be delivered as well (TOPIC_OTHER
\* is among the payloads).
C5_Witness ==
    /\ last.op = "event" /\ last.outcome = "returned"
    /\ last.payload.type = "admin.GROUP_MEMBERSHIP-CREATE"
    /\ last.families = <<"membership">> /\ last.muts # <<>>

\* The names of the groups a catalog user is a memberOf that resolve in the
\* catalog and are still in the directory.
RetainedGroups(cat, d, user) ==
    {ref[2] : ref \in {r \in MemberOfRefs(cat, user) :
                          /\ GetEntityByRef(cat, r) # <<>>
                          /\ GetEntityByRef(cat, r)[1].id \in d.groups}}

\* C6: on admin.USER-UPDATE for a user that is in the catalog and in the
\* directory, the handler applies a single delta that removes the old user
\* entity and adds its replacement, and the replacement is a memberOf exactly
\* the groups the old entity was a memberOf that resolve in the catalog and
\* are still in the directory.
C6_MembershipsPreserved ==
    [][(/\ last'.op = "event"
        /\ last'.families = <<"user">>
        /\ last'.payload.type = "admin.USER-UPDATE"
        /\ last'.payload.resourcePath[2] \in kc.users
        /\ GetEntityById(catalog, "User", last'.payload.resourcePath[2]) # <<>>)
         => LET userId == last'.payload.resourcePath[2]
                old == GetEntityById(catalog, "User", userId)[1]
            IN  /\ last'.outcome = "returned"
                /\ Len(last'.muts) = 1
                /\ last'.muts[1].type = "delta"
                /\ Len(last'.muts[1].removed) = 1
                /\ EntityRef(last'.muts[1].removed[1].entity) = EntityRef(old)
                /\ Len(last'.muts[1].added) = 1
                /\ last'.muts[1].added[1].entity.id = userId
                /\ Range(last'.muts[1].added[1].entity.memberOf)
                     = RetainedGroups(catalog, kc, old)]_vars

----------------------------------------------------------------------------
(* Properties of the extension point (SpecExt) and of fromConfig (SpecCfg) *)

\* The setter calls of one kind so far, in order.
CallsOfKind(kind) == SelectSeq(ext.calls, LAMBDA c : c.kind = kind)

\* The transformer registered for a kind.
Registered(kind) ==
    IF kind = "user" THEN ext.userTransformer ELSE ext.groupTransformer

\* C8: after any sequence of setter calls, the transformer registered for each
\* kind is the one the first call of that kind passed (none when there was no
\* such call); the first call of a kind returns and every later call of that
\* kind throws InputError; calls of the other kind change none of this.
C8_SetOnce ==
    \A kind \in {"user", "group"} :
        LET calls == CallsOfKind(kind)
        IN  /\ Registered(kind)
                 = (IF calls = <<>> THEN <<>> ELSE <<calls[1].transformer>>)
            /\ \A i \in 1..Len(calls) :
                  IF i = 1
                  THEN calls[i].outcome = "returned"
                  ELSE calls[i].outcome = "threw" /\ calls[i].err = "InputError"

\* The user transformer was set, then the group transformer, then the user
\* transformer again with another value, which threw.
C8_Witness ==
    /\ Len(ext.calls) = 3
    /\ ext.calls[1].kind = "user" /\ ext.calls[2].kind = "group"
    /\ ext.calls[3].kind = "user" /\ ext.calls[3].outcome = "threw"
    /\ ext.calls[3].transformer # ext.calls[1].transformer
    /\ ext.userTransformer = <<ext.calls[1].transformer>>
    /\ ext.groupTransformer = <<ext.calls[2].transformer>>

\* The provider configurations for which fromConfig finds no task runner.
WithoutRunner ==
    {i \in 1..Len(cfg.configs) :
        /\ ~(cfg.options.scheduler /\ cfg.configs[i].schedule # "none")
        /\ ~cfg.options.schedule}

\* C9: fromConfig returns one provider per provider configuration, in order.
\* The provider's runner is created from the configuration's schedule when the
\* options carry a scheduler and the configuration has a schedule, whether or
\* not options.schedule is there too; otherwise it is options.schedule when
\* that is there; otherwise fromConfig throws InputError naming the id of the
\* configuration and returns no provider.  The module's own call never throws.
C9_FromConfig ==
    cfg.caller # "none"
      => /\ IF WithoutRunner # {}
            THEN /\ cfg.result.outcome = "threw"
                 /\ cfg.result.err = "InputError"
                 /\ cfg.result.providers = <<>>
                 /\ cfg.result.errId
                      = cfg.configs[CHOOSE i \in WithoutRunner :
                                       \A j \in WithoutRunner : i <= j].id
            ELSE /\ cfg.result.outcome = "returned"
                 /\ Len(cfg.result.providers) = Len(cfg.configs)
                 /\ \A i \in 1..Len(cfg.configs) :
                       /\ cfg.result.providers[i].id = cfg.configs[i].id
                       /\ cfg.result.providers[i].taskRunner
                            = (IF cfg.options.scheduler
                                  /\ cfg.configs[i].schedule # "none"
                               THEN "runner:" \o cfg.configs[i].schedule
                               ELSE "options.schedule")
         /\ cfg.caller = "module" => cfg.result.outcome = "returned"

\* Options with both a scheduler and a schedule, one configuration with a
\* schedule of its own and one without: the first provider runs on the
\* configured schedule, the second on options.schedule.
C9_Witness ==
    /\ cfg.caller = "direct" /\ cfg.options.scheduler /\ cfg.options.schedule
    /\ Len(cfg.configs) = 2
    /\ cfg.configs[1].schedule = "PT30M" /\ cfg.configs[2].schedule = "none"
    /\ cfg.result.outcome = "returned"
    /\ cfg.result.providers[1].taskRunner = "runner:PT30M"
    /\ cfg.result.providers[2].taskRunner = "options.schedule"

----------------------------------------------------------------------------
(* Properties of the concurrency limit (specification SpecFetch) *)

\* C11: during one read(), the directory fetches in flight at the same time
\* are never more than provider.maxConcurrency, or than 20 when maxConcurrency
\* is not configured.
C11_BoundedFetches ==
    fetch.active <= (IF fetch.maxConcurrency = <<>> THEN 20
                     ELSE fetch.maxConcurrency[1])

\* With no maxConcurrency configured, 20 fetches are in flight and more wait.
C11_Witness ==
    /\ fetch.pc = "reading" /\ fetch.maxConcurrency = <<>>
    /\ fetch.active = 20 /\ fetch.queued > 0

----------------------------------------------------------------------------
(* Properties of the LDAP transformer (specification SpecLdap) *)

\* C13: myUserTransformer throws an Error when the mapped name attribute is
\* absent, has no values or has an empty first value, and otherwise returns a
\* User entity named by the first decoded value of the name attribute;
\* displayName and email are set only when their mapping is configured and
\* the attribute has a value, the custom annotation only when the DN attribute
\* has a value.
C13_UserTransformer ==
    ldap.called =>
      LET nameValues == ldap.entry[ldap.map.name]
          noName == \/ ~nameValues.defined
                    \/ Len(nameValues.values) = 0
                    \/ nameValues.values[1] = ""
          mapped(attr) == /\ attr # ""
                          /\ ldap.entry[attr].defined
                          /\ Len(ldap.entry[attr].values) >= 1
          entity == ldap.result.entity
      IN  /\ noName => ldap.result.outcome = "threw" /\ ldap.result.err = "Error"
          /\ ~noName => /\ ldap.result.outcome = "returned"
                        /\ entity.name = nameValues.values[1]
                        /\ entity.displayName # <<>> => mapped(ldap.map.displayName)
                        /\ entity.email # <<>> => mapped(ldap.map.email)
                        /\ entity.annotation # <<>> => mapped("dn")

\* An entry with two names, a display name and a DN but no mail value, under
\* a configuration that maps all three: the user is returned without email.
C13_Witness ==
    /\ ldap.called
    /\ ldap.entry["uid"] = Decoded(<<"ann", "bob">>)
    /\ ldap.map.displayName = "cn" /\ ldap.map.email = "mail"
    /\ ldap.result.outcome = "returned"
    /\ ldap.result.entity.name = "ann"
    /\ ldap.result.entity.displayName # <<>>
    /\ ldap.result.entity.email = <<>>
    /\ ldap.result.entity.annotation # <<>>

----------------------------------------------------------------------------
(* Properties of SidebarLogo (specification SpecLogo) *)

\* C14: SidebarLogo renders exactly one logo, chosen by the sidebar's open
\* state and the themed logo configuration alone: the configured full logo
\* (open) or icon logo (closed) as the image 'home-logo' with the configured
\* src, and without a configured logo the default full logo (open) or the
\* default icon logo (closed).
C14_LogoSelection ==
    logo.mounted =>
      LET configured == IF logo.isOpen THEN logo.fullLogo ELSE logo.iconLogo
      IN  /\ Len(logo.rendered) = 1
          /\ IF configured # <<>>
             THEN /\ logo.rendered[1].testId = "home-logo"
                  /\ logo.rendered[1].src = configured
             ELSE logo.rendered[1].testId =
                    (IF logo.isOpen THEN "default-full-logo" ELSE "default-icon-logo")

\* A closed sidebar with both logos configured shows the icon logo.
C14_Witness ==
    /\ logo.mounted /\ ~logo.isOpen
    /\ logo.fullLogo = <<"fullLogoBase64URI">>
    /\ logo.iconLogo = <<"iconLogoBase64URI">>
    /\ logo.rendered = <<[testId |-> "home-logo", src |-> <<"iconLogoBase64URI">>]>>

----------------------------------------------------------------------------
(* Properties of the event handlers (specification SpecEvents), continued *)

\* C12: while an event is handled, every request to the directory's admin API
\* (users.findOne, groups.findOne, the groups of a user, the members of a
\* group, listSubGroups) comes directly after an ensureTokenValid on the
\* client, with no other request between the two.
C12_TokenCheckedRequests ==
    last.op = "event" =>
      \A i \in 1..Len(last.reqs) :
         last.reqs[i] \in {"users.findOne", "groups.findOne", "users.listGroups",
                           "groups.listMembers", "groups.listSubGroups"}
           => i > 1 /\ last.reqs[i - 1] = "ensureTokenValid"

\* C15: on admin.USER-DELETE the handler returns; when the catalog holds a
\* User entity with the event's Keycloak id it applies exactly one delta that
\* removes that entity and adds nothing, and when the catalog holds none it
\* applies no mutation.
C15_UserDelete ==
    [][(/\ last'.op = "event"
        /\ last'.families = <<"user">>
        /\ last'.payload.type = "admin.USER-DELETE")
         => LET items == GetEntityById(catalog, "User", last'.payload.resourcePath[2])
            IN  /\ last'.outcome = "returned"
                /\ IF items # <<>>
                   THEN /\ Len(last'.muts) = 1
                        /\ last'.muts[1].type = "delta"
                        /\ last'.muts[1].added = <<>>
                        /\ Len(last'.muts[1].removed) = 1
                        /\ last'.muts[1].removed[1].entity = items[1]
                   ELSE last'.muts = <<>>]_vars

\* C16: on admin.USER-CREATE the handler returns; when the directory has the
\* user and parseUser yields an entity it applies exactly one delta that adds
\* that user entity and removes nothing, and otherwise it applies no mutation.
C16_UserCreate ==
    [][(/\ last'.op = "event"
        /\ last'.families = <<"user">>
        /\ last'.payload.type = "admin.USER-CREATE")
         => LET userId == last'.payload.resourcePath[2]
            IN  /\ last'.outcome = "returned"
                /\ IF userId \in kc.users /\ last'.parsed = "entity"
                   THEN /\ Len(last'.muts) = 1
                        /\ last'.muts[1].type = "delta"
                        /\ last'.muts[1].removed = <<>>
                        /\ Len(last'.muts[1].added) = 1
                        /\ last'.muts[1].added[1].entity.kind = "User"
                        /\ last'.muts[1].added[1].entity.id = userId
                        /\ last'.muts[1].added[1].entity.rev = kc.urev[userId]
                   ELSE last'.muts = <<>>]_vars

\* A USER-CREATE event whose user the directory returned and parseUser parsed:
\* the user was added to a catalog.
C16_Witness ==
    /\ last.op = "event"
    /\ last.payload.type = "admin.USER-CREATE"
    /\ last.parsed = "entity"
    /\ Len(last.muts) = 1
    /\ last.muts[1].added[1].entity.id = "u1"
    /\ \E e \in catalog : e.kind = "User" /\ e.id = "u1"

C18_MembershipSkipped ==
    [][(/\ last'.op = "event"
        /\ last'.families = <<"membership">>
        /\ last'.payload.resourcePath[2] \in kc.users
        /\ \/ GetEntityById(catalog, "User", last'.payload.resourcePath[2]) = <<>>
           \/ last'.payload.resourcePath[4] \notin kc.groups)
         => /\ last'.outcome = "returned"
            /\ last'.muts = <<>>]_vars

----------------------------------------------------------------------------
(* Specification *)

Init ==
    /\ kc \in InitDirectories
    /\ kcChanges = 0
    /\ catalog = {}
    /\ connection = FALSE
    /\ subscribed = FALSE
    /\ runnerTasks = <<>>
    /\ counter = 0
    /\ taskInstanceIds = <<>>
    /\ run = IdleRun
    /\ last = Obs0
    /\ delivered = 0
    /\ ext = Ext0
    /\ cfg = Cfg0
    /\ fetch = Fetch0
    /\ ldap = Ldap0
    /\ logo = Logo0

Next ==
    \/ KcChange
    \/ Connect
    \/ TaskInvoke
    \/ ReadDirect
    \/ ReadAuthenticate
    \/ ReadRealm
    \/ ReadCommit
    \/ CallHandler

\* The provider's refresh: connect, the scheduled task and read().
Spec == Init /\ [][Next]_vars

NextEvents ==
    \/ KcChange
    \/ Connect
    \/ Refresh
    \/ OnEvent

\* The provider's incremental updates: events between whole refreshes.
SpecEvents == Init /\ [][NextEvents]_vars

NextExt ==
    \/ SetUserTransformer
    \/ SetGroupTransformer

\* The transformer extension point under any sequence of setter calls.
SpecExt == Init /\ [][NextExt]_vars

NextCfg ==
    \/ FromConfig
    \/ ModuleInit

\* fromConfig under any provider configurations and options.
SpecCfg == Init /\ [][NextCfg]_vars
\* The fetches of a read() behind its concurrency limit.
SpecFetch == Init /\ [][FetchBegin \/ FetchStart \/ FetchSettle]_vars

\* myUserTransformer under any mapping and search entry.
SpecLdap == Init /\ [][LdapTransform]_vars

\* SidebarLogo under any open state and logo configuration.
SpecLogo == Init /\ [][RenderSidebarLogo]_vars

====
